---- MODULE Spec2Model ----
(***************************************************************************)
(* happy-tree: the functional graph of a transform over a finite domain,   *)
(* its cycles (findLoops / maybeLoop / dedupLoops), the proportional       *)
(* sunburst layout (drawLoop / drawNode) and the two render drivers:       *)
(* the sequential one of src/main.go and the worker-pool one of            *)
(* src/unnamed/part_003.                                                   *)
(*                                                                         *)
(* Node ids are 0-based as in the Go code; Go slices are TLA+ sequences    *)
(* (1-based positions).  float64 spans are modelled as exact rationals     *)
(* [num, den] in lowest terms, with the denominator 0 for NaN and Inf.     *)
(***************************************************************************)
EXTENDS Integers, Sequences, FiniteSets, TLC

\* Size of the domain in the sequential specifications (numNodes scaled down).
MaxNodes == 4
\* Size of the domain in the concurrent specification.
MaxConcNodes == 3
\* Number of drawNodeSpin goroutines (runtime.NumCPU()).
NumWorkers == 2

VARIABLES
    nodes,      \* Nodes: [0..N-1 -> [Num, Dst, Srcs]]
    prog,       \* which program runs: "main" (src/main.go) or "part3" (src/unnamed/part_003)
    pc,         \* position of the main goroutine
    fi,         \* findLoops: outer loop counter i
    loops,      \* []Nodes: the cycle list (sequence of sequences of Node)
    loop,       \* findLoops: the scratch slice `loop` as the caller sees it
    origI,      \* maybeLoop: origI
    cur,        \* maybeLoop: i
    path,       \* maybeLoop: its local slice `loop`
    rloop,      \* findLoops: rloop, what the last maybeLoop call returned (<<>> is nil)
    visits,     \* history: visits[x] counts the appends of node x to a walk path
    levels,     \* main: levels handed to newImg
    level,      \* main: level
    li,         \* main: position in `range loops`
    srcCounts,  \* drawLoop: srcCounts
    srcTotal,   \* drawLoop: srcTotal
    mj,         \* drawLoop: position in `range loop`
    lstart,     \* drawLoop: start
    pending,    \* sequential drawNode: curves the running call has still to draw
    canvases,   \* image contents: canvases[1] is main's img i, the others are copyBlank()s
    drawTotal,  \* drawCounter: total
    counts,     \* history: the srcCounts each drawLoop call computed, in call order
    ret,        \* drawLoop (part_003): ret
    promises,   \* main (part_003): promises
    pi,         \* main (part_003): position in `range promises`
    done,       \* done[k]: cmd.done of the k-th created command is closed
    wcmd,       \* drawNodeSpin: the command a worker received last
    wpc,        \* drawNodeSpin: "recv" (at `range drawNodeCh`) or "drawNode"
    wpend,      \* drawNodeSpin: curves its drawNode call has still to draw
    countClosed,\* drawCountCh is closed
    panicked    \* some goroutine panicked (send on / close of a closed channel)

vars == <<nodes, prog, pc, fi, loops, loop, origI, cur, path, rloop, visits,
          levels, level, li,
          srcCounts, srcTotal, mj, lstart, pending, canvases, drawTotal, counts,
          ret, promises, pi, done, wcmd, wpc, wpend, countClosed, panicked>>

findVars == <<fi, loops, loop, origI, cur, path, rloop, visits>>
drawVars == <<levels, level, li, srcCounts, srcTotal, mj, lstart, pending,
              canvases, drawTotal, counts>>
concVars == <<ret, promises, pi, done, wcmd, wpc, wpend, countClosed, panicked>>

-----------------------------------------------------------------------------
(* Nodes *)

NumNodes(n) == Cardinality(DOMAIN n)

Ids(n) == 0 .. (NumNodes(n) - 1)

RECURSIVE SrcsUpTo(_, _, _)
\* the Srcs slice of node t after createNodes has processed ids 0..k-1
SrcsUpTo(d, t, k) ==
    IF k = 0 THEN <<>>
    ELSE LET prev == SrcsUpTo(d, t, k - 1)
         IN  IF d[k - 1] = t THEN Append(prev, k - 1) ELSE prev

CreateNodes(d) ==
    [i \in DOMAIN d |->
        [Num |-> i, Dst |-> d[i], Srcs |-> SrcsUpTo(d, i, Cardinality(DOMAIN d))]]

Transforms(size) == [0 .. (size - 1) -> 0 .. (size - 1)]

isInSet(ns, i) == \E k \in 1 .. Len(ns) : ns[k].Num = i

countSrcsShallow(n, nn) == 1 + Len(nn.Srcs)
RECURSIVE countSrcsFrom(_, _, _)
RECURSIVE countSrcs(_, _)
countSrcsFrom(n, srcs, k) ==
    IF k > Len(srcs) THEN 0
    ELSE countSrcs(n, n[srcs[k]]) + countSrcsFrom(n, srcs, k + 1)

countSrcs(n, nn) == 1 + countSrcsFrom(n, nn.Srcs, 1)

-----------------------------------------------------------------------------
(* float64 spans as exact rationals *)

RECURSIVE GCD(_, _)
GCD(a, b) == IF b = 0 THEN a ELSE GCD(b, a % b)

Abs(a) == IF a < 0 THEN -a ELSE a

Sign(a) == IF a > 0 THEN 1 ELSE IF a < 0 THEN -1 ELSE 0

\* the value a/b in lowest terms with a non-negative denominator; the
\* denominator 0 stands for the float64 specials: 0/0 is NaN, 1/0 is +Inf
Rat(a, b) ==
    IF b = 0 THEN [num |-> Sign(a), den |-> 0]
    ELSE LET g == GCD(Abs(a), Abs(b))
         IN  [num |-> Sign(b) * (a \div g), den |-> Abs(b) \div g]

Zero == Rat(0, 1)
One == Rat(1, 1)
NaN == Rat(0, 0)

IsNaN(x) == x.den = 0 /\ x.num = 0

RAdd(x, y) == Rat(x.num * y.den + y.num * x.den, x.den * y.den)
RSub(x, y) == Rat(x.num * y.den - y.num * x.den, x.den * y.den)
RMul(x, y) == Rat(x.num * y.num, x.den * y.den)
\* comparisons with NaN are false
RLe(x, y) == ~IsNaN(x) /\ ~IsNaN(y) /\ x.num * y.den <= y.num * x.den
RLt(x, y) == ~IsNaN(x) /\ ~IsNaN(y) /\ x.num * y.den < y.num * x.den

\* float64(a) / float64(b) for non-negative ints
FDiv(a, b) == Rat(a, b)

-----------------------------------------------------------------------------
(* nodeLevels, loopLevels, totalLevels *)

Max(a, b) == IF a > b THEN a ELSE b

RECURSIVE nodeLevelsFrom(_, _, _, _, _)
RECURSIVE nodeLevels(_, _, _)
\* the `for _, sni := range nn.Srcs` of nodeLevels from position k on, max so far m
nodeLevelsFrom(n, nn, excluding, k, m) ==
    IF k > Len(nn.Srcs) THEN m
    ELSE IF isInSet(excluding, nn.Srcs[k])
    THEN nodeLevelsFrom(n, nn, excluding, k + 1, m)
    ELSE nodeLevelsFrom(n, nn, excluding, k + 1,
                        Max(m, nodeLevels(n, n[nn.Srcs[k]], <<>>)))

nodeLevelsNoSelf(n, nn, excluding) == nodeLevelsFrom(n, nn, excluding, 1, 0)
nodeLevels(n, nn, excluding) == nodeLevelsFrom(n, nn, excluding, 1, 0) + 1

RECURSIVE loopLevelsFrom(_, _, _, _)
loopLevelsFrom(n, lp, k, m) ==
    IF k > Len(lp) THEN m
    ELSE loopLevelsFrom(n, lp, k + 1, Max(m, nodeLevels(n, lp[k], lp)))

loopLevels(n, lp) == loopLevelsFrom(n, lp, 1, 0)

RECURSIVE totalLevelsMain(_, _, _)
\* src/main.go: levels += loopLevels(n, loop)
totalLevelsMain(n, ls, k) ==
    IF k > Len(ls) THEN 0
    ELSE loopLevels(n, ls[k]) + totalLevelsMain(n, ls, k + 1)

RECURSIVE totalLevelsPart3(_, _, _)
\* src/unnamed/part_003: levels += loopLevels(n, loop); levels++
totalLevelsPart3(n, ls, k) ==
    IF k > Len(ls) THEN 0
    ELSE loopLevels(n, ls[k]) + 1 + totalLevelsPart3(n, ls, k + 1)

totalLevels(p, n, ls) ==
    IF p = "main" THEN totalLevelsMain(n, ls, 1) ELSE totalLevelsPart3(n, ls, 1)

-----------------------------------------------------------------------------
(* drawNode and drawLoop: the layout arithmetic *)

Curve(lvl, color, start, end) ==
    [level |-> lvl, color |-> color, start |-> start, end |-> end]

\* drawNode's srcCounts[j] (0 for an excluded source, as make() leaves it)
nodeSrcCount(n, nn, excluding, j) ==
    IF isInSet(excluding, nn.Srcs[j]) THEN 0 ELSE countSrcs(n, n[nn.Srcs[j]])

RECURSIVE nodeSrcTotalFrom(_, _, _, _)
nodeSrcTotalFrom(n, nn, excluding, j) ==
    IF j > Len(nn.Srcs) THEN 0
    ELSE nodeSrcCount(n, nn, excluding, j) + nodeSrcTotalFrom(n, nn, excluding, j + 1)

nodeSrcTotal(n, nn, excluding) == nodeSrcTotalFrom(n, nn, excluding, 1)

\* fract := (float64(srcCounts[j]) / float64(srcTotal)) * diff
nodeFractNoDiff(cnt, total, diff) == FDiv(cnt, total)
nodeFract(cnt, total, diff) == RMul(FDiv(cnt, total), diff)

RECURSIVE drawNodeSrcs(_, _, _, _, _, _, _, _)
RECURSIVE drawNode(_, _, _, _, _, _)
\* the second `for j, sni := range nn.Srcs` of drawNode from position j on,
\* with the running value of start: the curves drawn, in order
drawNodeSrcs(n, nn, excluding, lvl, start, diff, total, j) ==
    IF j > Len(nn.Srcs) THEN <<>>
    ELSE IF isInSet(excluding, nn.Srcs[j])
    THEN drawNodeSrcs(n, nn, excluding, lvl, start, diff, total, j + 1)
    ELSE LET fract == nodeFract(nodeSrcCount(n, nn, excluding, j), total, diff)
         IN  drawNode(n, n[nn.Srcs[j]], <<>>, lvl + 1, start, RAdd(start, fract))
             \o drawNodeSrcs(n, nn, excluding, lvl, RAdd(start, fract), diff, total, j + 1)

\* every curve one call of drawNode draws (i.drawCurve), in drawing order
drawNode(n, nn, excluding, lvl, start, end) ==
    <<Curve(lvl, nn.Num, start, end)>>
    \o drawNodeSrcs(n, nn, excluding, lvl, start, RSub(end, start),
                    nodeSrcTotal(n, nn, excluding), 1)

RECURSIVE loopSrcCountFrom(_, _, _, _)
\* drawLoop's srcCounts[j]: the inner `for _, sni := range ln.Srcs` from k on
loopSrcCountFrom(n, lp, ln, k) ==
    IF k > Len(ln.Srcs) THEN 0
    ELSE (IF isInSet(lp, ln.Srcs[k]) THEN 0 ELSE countSrcs(n, n[ln.Srcs[k]]))
         + loopSrcCountFrom(n, lp, ln, k + 1)

loopSrcCounts(n, lp) == [j \in 1 .. Len(lp) |-> loopSrcCountFrom(n, lp, lp[j], 1)]

RECURSIVE SumSeq(_, _)
SumSeq(sq, k) == IF k > Len(sq) THEN 0 ELSE sq[k] + SumSeq(sq, k + 1)

\* fract := float64(srcCounts[j]) / float64(srcTotal); if math.IsNaN(fract) { fract = 1 }
loopFractZeroCount(cnt, total) == IF cnt = 0 THEN One ELSE FDiv(cnt, total)
loopFract(cnt, total) ==
    LET fract == FDiv(cnt, total)
    IN  IF IsNaN(fract) THEN One ELSE fract

-----------------------------------------------------------------------------
(* findLoops, maybeLoop, dedupLoops *)

\* part_003: "If i is part of any of the loops found so far, don't bother"
InFoundLoopsNever(ls, i) == FALSE
InFoundLoops(ls, i) ==
    \E a \in 1 .. Len(ls) : \E b \in 1 .. Len(ls[a]) : ls[a][b].Num = i

\* main.go: the inner `i` shadows the outer one and ranges over the indices of
\* loops; the set searched is the scratch slice loop, not a found loop.
SkipMain(ls, scratch, i) ==
    \E idx \in 0 .. (Len(ls) - 1) : isInSet(scratch, idx)

Skip(p, ls, scratch, i) ==
    IF p = "main" THEN SkipMain(ls, scratch, i) ELSE InFoundLoops(ls, i)

RECURSIVE dedupLoopBody(_, _, _)
\* the inner `for _, n := range loop` of dedupLoops from position k on:
\* [found, keep] where keep is FALSE when `continue outer` was taken
dedupLoopBody(found, lp, k) ==
    IF k > Len(lp) THEN [found |-> found, keep |-> TRUE]
    ELSE IF lp[k].Num \in found THEN [found |-> found, keep |-> FALSE]
    ELSE dedupLoopBody(found \cup {lp[k].Num}, lp, k + 1)

RECURSIVE dedupLoopsFrom(_, _, _, _)
dedupLoopsFrom(ls, k, found, acc) ==
    IF k > Len(ls) THEN acc
    ELSE LET r == dedupLoopBody(found, ls[k], 1)
         IN  dedupLoopsFrom(ls, k + 1, r.found,
                            IF r.keep THEN Append(acc, ls[k]) ELSE acc)

dedupLoopsNone(ls) == ls
dedupLoops(ls) == dedupLoopsFrom(ls, 1, {}, <<>>)

\* the two tests of one pass of maybeLoop's `for`, after the append:
\* "break" (the walk is back at its origin), "nil" (it ran into its own
\* path elsewhere), "next" (keep walking)
maybeLoopTestNoNil(walked, dst, orig) ==
    IF dst = orig THEN "break" ELSE "next"
maybeLoopTestSwapped(walked, dst, orig) ==
    IF isInSet(walked, dst) THEN "nil"
    ELSE IF dst = orig THEN "break"
    ELSE "next"
maybeLoopTest(walked, dst, orig) ==
    IF dst = orig THEN "break"
    ELSE IF isInSet(walked, dst) THEN "nil"
    ELSE "next"

FindInit ==
    /\ pc = "findLoops"
    /\ fi = 0
    /\ loops = <<>>
    /\ loop = <<>>
    /\ origI = 0
    /\ cur = 0
    /\ path = <<>>
    /\ rloop = <<>>
    /\ visits = [x \in Ids(nodes) |-> 0]

\* one pass of the outer loop header: the skip test, then the call of maybeLoop
FindLoopsIter ==
    /\ pc = "findLoops"
    /\ fi < NumNodes(nodes)
    /\ IF Skip(prog, loops, loop, fi)
       THEN /\ fi' = fi + 1
            /\ UNCHANGED <<pc, origI, cur, path>>
       ELSE /\ pc' = "maybeLoop"
            /\ origI' = fi
            /\ cur' = fi
            /\ path' = loop
            /\ UNCHANGED fi
    /\ UNCHANGED <<nodes, prog, loops, loop, rloop, visits>>
    /\ UNCHANGED drawVars
    /\ UNCHANGED concVars

\* one pass of the `for` of maybeLoop, and on its return the rest of the
\* findLoops iteration (append the loop, fresh scratch slice, i++)
MaybeLoopStep ==
    /\ pc = "maybeLoop"
    /\ LET walked == Append(path, nodes[cur])
           dst == nodes[cur].Dst
           what == maybeLoopTest(walked, dst, origI)
       IN  /\ path' = walked
           /\ visits' = [visits EXCEPT ![cur] = @ + 1]
           /\ IF what = "break"
              THEN /\ rloop' = walked
                   /\ loops' = Append(loops, walked)
                   /\ loop' = <<>>
                   /\ pc' = "findLoops"
                   /\ fi' = fi + 1
                   /\ UNCHANGED cur
              ELSE IF what = "nil"
              THEN /\ rloop' = <<>>
                   /\ pc' = "findLoops"
                   /\ fi' = fi + 1
                   /\ UNCHANGED <<loops, loop, cur>>
              ELSE /\ cur' = dst
                   /\ UNCHANGED <<pc, fi, loops, loop, rloop>>
    /\ UNCHANGED <<nodes, prog, origI>>
    /\ UNCHANGED drawVars
    /\ UNCHANGED concVars

\* findLoops returns; main.go then deduplicates, part_003 does not
FindLoopsReturn ==
    /\ pc = "findLoops"
    /\ fi = NumNodes(nodes)
    /\ loops' = IF prog = "main" THEN dedupLoops(loops) ELSE loops
    /\ pc' = "found"
    /\ UNCHANGED <<nodes, prog, fi, loop, origI, cur, path, rloop, visits>>
    /\ UNCHANGED drawVars
    /\ UNCHANGED concVars

IdleDraw ==
    /\ levels = 0
    /\ level = 0
    /\ li = 0
    /\ srcCounts = <<>>
    /\ srcTotal = 0
    /\ mj = 0
    /\ lstart = Zero
    /\ pending = <<>>
    /\ canvases = <<>>
    /\ drawTotal = 0
    /\ counts = <<>>

IdleConc ==
    /\ ret = <<>>
    /\ promises = <<>>
    /\ pi = 0
    /\ done = <<>>
    /\ wcmd = <<>>
    /\ wpc = <<>>
    /\ wpend = <<>>
    /\ countClosed = FALSE
    /\ panicked = FALSE

-----------------------------------------------------------------------------
(* The render of src/main.go: main, drawLoop, drawNode on one goroutine *)

\* levels := totalLevels(nodes, loops) + 1; i := newImg(...); level := 1
MainStart ==
    /\ pc = "found"
    /\ levels' = totalLevels(prog, nodes, loops) + 1
    /\ canvases' = <<<<>>>>
    /\ level' = 1
    /\ li' = 1
    /\ pc' = "range"
    /\ UNCHANGED <<nodes, prog, srcCounts, srcTotal, mj, lstart, pending,
                   drawTotal, counts>>
    /\ UNCHANGED findVars
    /\ UNCHANGED concVars

\* drawLoop is called for loops[li]: its first loop nest computes the weights
DrawLoopEnter ==
    /\ pc = "range"
    /\ li <= Len(loops)
    /\ LET c == loopSrcCounts(nodes, loops[li])
       IN  /\ srcCounts' = c
           /\ srcTotal' = SumSeq(c, 1)
           /\ counts' = Append(counts, c)
    /\ lstart' = Zero
    /\ mj' = 1
    /\ pc' = "drawLoop"
    /\ UNCHANGED <<nodes, prog, levels, level, li, pending, canvases, drawTotal>>
    /\ UNCHANGED findVars
    /\ UNCHANGED concVars

\* drawLoop calls drawNode(n, i, ln, loop, level, start, start+fract)
DrawLoopMember ==
    /\ pc = "drawLoop"
    /\ mj <= Len(loops[li])
    /\ LET fract == loopFract(srcCounts[mj], srcTotal)
       IN  pending' = drawNode(nodes, loops[li][mj], loops[li], level,
                               lstart, RAdd(lstart, fract))
    /\ pc' = "drawNode"
    /\ UNCHANGED <<nodes, prog, levels, level, li, srcCounts, srcTotal, mj,
                   lstart, canvases, drawTotal, counts>>
    /\ UNCHANGED findVars
    /\ UNCHANGED concVars

\* i.drawCurve(c); drawCountCh <- true (received by drawCounter: total++)
DrawCurve ==
    /\ pc = "drawNode"
    /\ pending # <<>>
    /\ canvases' = [canvases EXCEPT ![1] = Append(@, Head(pending))]
    /\ drawTotal' = drawTotal + 1
    /\ pending' = Tail(pending)
    /\ UNCHANGED <<nodes, prog, pc, levels, level, li, srcCounts, srcTotal, mj,
                   lstart, counts>>
    /\ UNCHANGED findVars
    /\ UNCHANGED concVars

\* the outermost drawNode returns to drawLoop: start += fract
DrawNodeReturn ==
    /\ pc = "drawNode"
    /\ pending = <<>>
    /\ lstart' = RAdd(lstart, loopFract(srcCounts[mj], srcTotal))
    /\ mj' = mj + 1
    /\ pc' = "drawLoop"
    /\ UNCHANGED <<nodes, prog, levels, level, li, srcCounts, srcTotal,
                   pending, canvases, drawTotal, counts>>
    /\ UNCHANGED findVars
    /\ UNCHANGED concVars

\* drawLoop returns: level += loopLevels(nodes, loop); level++
DrawLoopReturn ==
    /\ pc = "drawLoop"
    /\ mj > Len(loops[li])
    /\ level' = level + loopLevels(nodes, loops[li]) + 1
    /\ li' = li + 1
    /\ pc' = "range"
    /\ UNCHANGED <<nodes, prog, levels, srcCounts, srcTotal, mj, lstart,
                   pending, canvases, drawTotal, counts>>
    /\ UNCHANGED findVars
    /\ UNCHANGED concVars

\* i.save()
Save ==
    /\ pc = "range"
    /\ li > Len(loops)
    /\ pc' = "done"
    /\ UNCHANGED <<nodes, prog>>
    /\ UNCHANGED drawVars
    /\ UNCHANGED findVars
    /\ UNCHANGED concVars

Init ==
    /\ \E d \in Transforms(MaxNodes) : nodes = CreateNodes(d)
    /\ prog = "main"
    /\ FindInit
    /\ IdleDraw
    /\ IdleConc

Next ==
    \/ FindLoopsIter
    \/ MaybeLoopStep
    \/ FindLoopsReturn
    \/ MainStart
    \/ DrawLoopEnter
    \/ DrawLoopMember
    \/ DrawCurve
    \/ DrawNodeReturn
    \/ DrawLoopReturn
    \/ Save

Spec == Init /\ [][Next]_vars

-----------------------------------------------------------------------------
(* The render of src/unnamed/part_003: main, drawLoop, the drawNodeSpin    *)
(* workers and the drawCounter goroutine                                   *)

Workers == 1 .. NumWorkers

\* i.copyBlank(): the image the new command draws on (a fresh rgba)
copyBlankShared(cs) == 1
copyBlank(cs) == Len(cs) + 1

\* <-cmd.done returns: the channel is closed
doneClosedNoWait(dn, cmd) == TRUE
doneClosed(dn, cmd) == dn[cmd.done]

\* make(chan struct{}): the done channel of the new command
makeDoneShared(dn) == 1
makeDone(dn) == Len(dn) + 1

\* close(cmd.done)
closeDoneForgot(dn, cmd) == dn
closeDone(dn, cmd) == [dn EXCEPT ![cmd.done] = TRUE]

\* i.cat(i2): draw i2 over i
cat(dst, src) == dst \o src

\* the goroutines started by init(): every worker at `range drawNodeCh`
WorkersInit ==
    /\ wpc = [w \in Workers |-> "recv"]
    /\ wcmd = [w \in Workers |-> <<>>]
    /\ wpend = [w \in Workers |-> <<>>]

\* drawLoop builds the command for member mj and sends it on drawNodeCh; the
\* unbuffered send completes when worker w, waiting at `range drawNodeCh`,
\* receives it and calls drawNode(cmd)
SendCmd(w) ==
    /\ pc = "drawLoop"
    /\ ~panicked
    /\ mj <= Len(loops[li])
    /\ wpc[w] = "recv"
    /\ LET fract == loopFract(srcCounts[mj], srcTotal)
           cmd == [nn |-> loops[li][mj], excluding |-> loops[li],
                   level |-> level, start |-> lstart, end |-> RAdd(lstart, fract),
                   i |-> copyBlank(canvases), done |-> makeDone(done)]
       IN  /\ canvases' = Append(canvases, <<>>)
           /\ done' = Append(done, FALSE)
           /\ wcmd' = [wcmd EXCEPT ![w] = cmd]
           /\ wpc' = [wpc EXCEPT ![w] = "drawNode"]
           /\ wpend' = [wpend EXCEPT ![w] =
                          drawNode(nodes, cmd.nn, cmd.excluding, cmd.level,
                                   cmd.start, cmd.end)]
           /\ ret' = Append(ret, cmd)
           /\ lstart' = RAdd(lstart, fract)
    /\ mj' = mj + 1
    /\ UNCHANGED <<nodes, prog, pc, levels, level, li, srcCounts, srcTotal,
                   pending, drawTotal, counts, promises, pi, countClosed, panicked>>
    /\ UNCHANGED findVars

\* a worker inside drawNode: cmd.i.drawCurve(c); drawCountCh <- cmd.level
\* (received by drawCounter: total++; a send on a closed channel panics)
WorkerDraw(w) ==
    /\ wpc[w] = "drawNode"
    /\ ~panicked
    /\ wpend[w] # <<>>
    /\ canvases' = [canvases EXCEPT ![wcmd[w].i] = Append(@, Head(wpend[w]))]
    /\ wpend' = [wpend EXCEPT ![w] = Tail(@)]
    /\ IF countClosed
       THEN panicked' = TRUE /\ UNCHANGED drawTotal
       ELSE drawTotal' = drawTotal + 1 /\ UNCHANGED panicked
    /\ UNCHANGED <<nodes, prog, pc, levels, level, li, srcCounts, srcTotal, mj,
                   lstart, pending, counts, ret, promises, pi, done, wcmd, wpc,
                   countClosed>>
    /\ UNCHANGED findVars

\* drawNode(cmd) has returned: close(cmd.done), back to `range drawNodeCh`
\* (closing a closed channel panics)
WorkerClose(w) ==
    /\ wpc[w] = "drawNode"
    /\ ~panicked
    /\ wpend[w] = <<>>
    /\ IF done[wcmd[w].done]
       THEN panicked' = TRUE /\ UNCHANGED done
       ELSE done' = closeDone(done, wcmd[w]) /\ UNCHANGED panicked
    /\ wpc' = [wpc EXCEPT ![w] = "recv"]
    /\ UNCHANGED <<nodes, prog, pc, wcmd, wpend, ret, promises, pi, countClosed>>
    /\ UNCHANGED drawVars
    /\ UNCHANGED findVars

\* drawLoop returns ret: promises = append(promises, ret...); level += ...; level++
SendLoopReturn ==
    /\ pc = "drawLoop"
    /\ ~panicked
    /\ mj > Len(loops[li])
    /\ promises' = promises \o ret
    /\ ret' = <<>>
    /\ level' = level + loopLevels(nodes, loops[li]) + 1
    /\ li' = li + 1
    /\ pc' = "range"
    /\ UNCHANGED <<nodes, prog, levels, srcCounts, srcTotal, mj, lstart, pending,
                   canvases, drawTotal, counts, pi, done, wcmd, wpc, wpend,
                   countClosed, panicked>>
    /\ UNCHANGED findVars

\* `for _, loop := range loops` is over: on to `for _, cmd := range promises`
RangePromises ==
    /\ pc = "range"
    /\ ~panicked
    /\ li > Len(loops)
    /\ pi' = 1
    /\ pc' = "wait"
    /\ UNCHANGED <<nodes, prog, ret, promises, done, wcmd, wpc, wpend,
                   countClosed, panicked>>
    /\ UNCHANGED drawVars
    /\ UNCHANGED findVars

\* <-cmd.done
WaitDone ==
    /\ pc = "wait"
    /\ ~panicked
    /\ pi <= Len(promises)
    /\ doneClosed(done, promises[pi])
    /\ pc' = "cat"
    /\ UNCHANGED <<nodes, prog>>
    /\ UNCHANGED concVars
    /\ UNCHANGED drawVars
    /\ UNCHANGED findVars

\* i.cat(cmd.i)
Cat ==
    /\ pc = "cat"
    /\ ~panicked
    /\ canvases' = [canvases EXCEPT ![1] = cat(@, canvases[promises[pi].i])]
    /\ pi' = pi + 1
    /\ pc' = "wait"
    /\ UNCHANGED <<nodes, prog, levels, level, li, srcCounts, srcTotal, mj,
                   lstart, pending, drawTotal, counts, ret, promises, done,
                   wcmd, wpc, wpend, countClosed, panicked>>
    /\ UNCHANGED findVars

\* close(drawCountCh)
CloseCount ==
    /\ pc = "wait"
    /\ ~panicked
    /\ pi > Len(promises)
    /\ countClosed' = TRUE
    /\ pc' = "save"
    /\ UNCHANGED <<nodes, prog, ret, promises, pi, done, wcmd, wpc, wpend, panicked>>
    /\ UNCHANGED drawVars
    /\ UNCHANGED findVars

\* i.save()
SaveConc ==
    /\ pc = "save"
    /\ ~panicked
    /\ pc' = "done"
    /\ UNCHANGED <<nodes, prog>>
    /\ UNCHANGED concVars
    /\ UNCHANGED drawVars
    /\ UNCHANGED findVars

InitConc ==
    /\ \E d \in Transforms(MaxConcNodes) : nodes = CreateNodes(d)
    /\ prog = "part3"
    /\ FindInit
    /\ IdleDraw
    /\ ret = <<>>
    /\ promises = <<>>
    /\ pi = 0
    /\ done = <<>>
    /\ WorkersInit
    /\ countClosed = FALSE
    /\ panicked = FALSE

NextConc ==
    \/ FindLoopsIter
    \/ MaybeLoopStep
    \/ FindLoopsReturn
    \/ MainStart
    \/ DrawLoopEnter
    \/ \E w \in Workers : SendCmd(w)
    \/ \E w \in Workers : WorkerDraw(w)
    \/ \E w \in Workers : WorkerClose(w)
    \/ SendLoopReturn
    \/ RangePromises
    \/ WaitDone
    \/ Cat
    \/ CloseCount
    \/ SaveConc

SpecConc == InitConc /\ [][NextConc]_vars

\* the steps of the main goroutine of part_003 other than the send on
\* drawNodeCh
MainConc ==
    \/ FindLoopsIter
    \/ MaybeLoopStep
    \/ FindLoopsReturn
    \/ MainStart
    \/ DrawLoopEnter
    \/ SendLoopReturn
    \/ RangePromises
    \/ WaitDone
    \/ Cat
    \/ CloseCount
    \/ SaveConc

\* main is at `drawNodeCh <- cmd` and some worker is at `range drawNodeCh`:
\* the condition under which some SendCmd(w) can happen
SendReady ==
    /\ pc = "drawLoop"
    /\ ~panicked
    /\ mj <= Len(loops[li])
    /\ \E w \in Workers : wpc[w] = "recv"

\* weak fairness of the rendezvous on drawNodeCh, WF_vars(\E w : SendCmd(w)),
\* with its enabling condition written out as SendReady
SendFair ==
    []<>(~SendReady) \/ []<><<\E w \in Workers : SendCmd(w)>>_vars

\* the steps of one drawNodeSpin goroutine after it has received a command
WorkerConc(w) == WorkerDraw(w) \/ WorkerClose(w)

\* the Go scheduler runs every goroutine that stays runnable: weak fairness
\* for main, for the rendezvous on drawNodeCh and for each worker
\* (drawCounter, whose receive is part of the draw step, never blocks
\* between two receives)
SpecConcFair ==
    /\ InitConc
    /\ [][NextConc]_vars
    /\ WF_vars(MainConc)
    /\ SendFair
    /\ \A w \in Workers : WF_vars(WorkerConc(w))

InitFind ==
    /\ \E d \in Transforms(MaxNodes) : nodes = CreateNodes(d)
    /\ prog \in {"main", "part3"}
    /\ FindInit
    /\ IdleDraw
    /\ IdleConc

NextFind == FindLoopsIter \/ MaybeLoopStep \/ FindLoopsReturn

SpecFind == InitFind /\ [][NextFind]_vars

-----------------------------------------------------------------------------
(* Properties of the cycle list *)

RECURSIVE Follow(_, _, _)
\* the node reached from x after k applications of Dst
Follow(n, x, k) == IF k = 0 THEN x ELSE Follow(n, n[x].Dst, k - 1)

Members(ls) == UNION {{ls[a][b].Num : b \in 1 .. Len(ls[a])} : a \in 1 .. Len(ls)}

Positions(ls) == UNION {{<<a, b>> : b \in 1 .. Len(ls[a])} : a \in 1 .. Len(ls)}

Periodic(n) == {x \in Ids(n) : \E k \in 1 .. NumNodes(n) : Follow(n, x, k) = x}

\* C1: totality of cycles.  When findLoops (part_003) or findLoops followed by
\* dedupLoops (main.go) has returned, following Dst from any node reaches a
\* member of some loop of the cycle list within at most N steps.
C1_Totality ==
    pc = "found" =>
        \A x \in Ids(nodes) :
            \E k \in 0 .. NumNodes(nodes) : Follow(nodes, x, k) \in Members(loops)

C1_Witness ==
    /\ pc = "found"
    /\ Len(loops) >= 2
    /\ \E x \in Ids(nodes) :
          /\ Follow(nodes, x, 1) \notin Members(loops)
          /\ Follow(nodes, x, 2) \in Members(loops)

\* C2: disjointness.  In the final cycle list no node number occurs twice,
\* neither inside one loop nor in two different loops.
C2_Disjoint ==
    pc = "found" =>
        \A p \in Positions(loops) : \A q \in Positions(loops) :
            loops[p[1]][p[2]].Num = loops[q[1]][q[2]].Num => p = q

C2_Witness ==
    /\ pc = "found"
    /\ Len(loops) >= 2
    /\ \E a \in 1 .. Len(loops) : Len(loops[a]) >= 2

-----------------------------------------------------------------------------
(* Properties of the layout (render of src/main.go) *)

\* the curves drawn so far on main's image
Drawn == IF Len(canvases) >= 1 THEN canvases[1] ELSE <<>>

IsDrawn(x) == \E k \in 1 .. Len(Drawn) : Drawn[k].color = x

\* the curve drawn for node x
CurveOf(x) == Drawn[CHOOSE k \in 1 .. Len(Drawn) : Drawn[k].color = x]

Width(c) == RSub(c.end, c.start)

RECURSIVE SumCounts(_, _)
\* the sum of every srcCounts[j] of the drawLoop calls from the k-th on
SumCounts(cs, k) == IF k > Len(cs) THEN 0 ELSE SumSeq(cs[k], 1) + SumCounts(cs, k + 1)

\* C3 as claimed: the weights drawLoop computes, summed over all members of
\* all cycles, equal the domain size N.
C3_SumIsDomainSize ==
    pc = "done" => SumCounts(counts, 1) = NumNodes(nodes)

\* C3 amended: a member's weight does not count the member itself, so the
\* weights sum to N minus the number of cycle members (the transient nodes).
C3_SumIsTransients ==
    pc = "done" =>
        SumCounts(counts, 1) = NumNodes(nodes) - Cardinality(Periodic(nodes))

C3_Witness ==
    /\ pc = "done"
    /\ Len(counts) >= 2
    /\ \E a \in 1 .. Len(counts) : \E b \in 1 .. Len(counts[a]) : counts[a][b] >= 2

RECURSIVE KidsFrom(_, _, _)
\* the sources of x that are not on a cycle, in Srcs order: the sources
\* drawNode recurses into (a cycle member's excluded set is its own cycle)
KidsFrom(n, x, k) ==
    IF k > Len(n[x].Srcs) THEN <<>>
    ELSE (IF n[x].Srcs[k] \in Periodic(n) THEN <<>> ELSE <<n[x].Srcs[k]>>)
         \o KidsFrom(n, x, k + 1)

Kids(n, x) == KidsFrom(n, x, 1)

RECURSIVE KidsTotal(_, _, _)
KidsTotal(n, ks, k) ==
    IF k > Len(ks) THEN 0 ELSE countSrcs(n, n[ks[k]]) + KidsTotal(n, ks, k + 1)

\* C4: angular partition completeness.  For every drawNode call on a node
\* with at least one non-excluded source, the spans of the recursive calls,
\* in Srcs order, start at the parent's start, each start where the previous
\* ended, each have width countSrcs(child)/srcTotal times the parent's
\* width, and the last ends at the parent's end.
C4_Partition ==
    \A x \in Ids(nodes) :
        LET ks == Kids(nodes, x)
            total == KidsTotal(nodes, ks, 1)
        IN  \A k \in 1 .. Len(ks) :
                IsDrawn(ks[k]) =>
                    /\ IsDrawn(x)
                    /\ CurveOf(ks[k]).level = CurveOf(x).level + 1
                    /\ IF k = 1
                       THEN CurveOf(ks[k]).start = CurveOf(x).start
                       ELSE /\ IsDrawn(ks[k - 1])
                            /\ CurveOf(ks[k]).start = CurveOf(ks[k - 1]).end
                    /\ Width(CurveOf(ks[k]))
                         = RMul(Rat(countSrcs(nodes, nodes[ks[k]]), total),
                                Width(CurveOf(x)))
                    /\ (k = Len(ks) => CurveOf(ks[k]).end = CurveOf(x).end)

C4_Witness ==
    /\ pc = "done"
    /\ \E x \in Ids(nodes) :
          LET ks == Kids(nodes, x)
          IN  /\ Len(ks) >= 2
              /\ Width(CurveOf(ks[1])) # Width(CurveOf(ks[2]))
              /\ CurveOf(ks[Len(ks)]).end = CurveOf(x).end
    /\ \E y \in Ids(nodes) :
          /\ Len(Kids(nodes, y)) >= 1
          /\ Width(CurveOf(y)) # One
          /\ Width(CurveOf(y)) # Zero

\* C5 as claimed: the spans drawLoop gives to the members of a cycle are
\* shares of the full circle: the first starts at 0, they are contiguous in
\* loop order, each lies inside [0,1], and the last ends at exactly 1.
C5_SharesOfCircle ==
    \A a \in 1 .. Len(loops) :
        (pc \in {"range", "drawLoop", "drawNode", "done"}
           /\ \A b \in 1 .. Len(loops[a]) : IsDrawn(loops[a][b].Num)) =>
             \A b \in 1 .. Len(loops[a]) :
                LET c == CurveOf(loops[a][b].Num)
                IN  /\ (b = 1 => c.start = Zero)
                    /\ (b > 1 => c.start = CurveOf(loops[a][b - 1].Num).end)
                    /\ RLe(Zero, c.start)
                    /\ RLe(c.start, c.end)
                    /\ RLe(c.end, One)
                    /\ (b = Len(loops[a]) => c.end = One)

\* the cycle members drawLoop has drawn so far, as positions <<a, b>> of loops
DrawnMembers ==
    IF pc \in {"range", "drawLoop", "drawNode", "done"}
    THEN {p \in Positions(loops) : p[1] <= Len(counts) /\ IsDrawn(loops[p[1]][p[2]].Num)}
    ELSE {}

\* C6 as claimed: a cycle member with zero weight never gets a zero-width
\* wedge, whatever the weights of the other members are.
C6_NeverZeroWidth ==
    \A p \in DrawnMembers :
        counts[p[1]][p[2]] = 0 =>
            LET c == CurveOf(loops[p[1]][p[2]].Num) IN RLt(c.start, c.end)

\* C6 amended: a cycle member with zero weight gets a span of width 1 when
\* the total weight of its cycle is zero (float64 0/0), and a zero-width
\* wedge when some other member of the cycle has positive weight.
C6_FallbackOnlyOnZeroTotal ==
    \A p \in DrawnMembers :
        counts[p[1]][p[2]] = 0 =>
            LET c == CurveOf(loops[p[1]][p[2]].Num)
            IN  IF SumSeq(counts[p[1]], 1) = 0
                THEN Width(c) = One
                ELSE Width(c) = Zero

C6_Witness ==
    /\ pc = "done"
    /\ \E p \in DrawnMembers :
          /\ counts[p[1]][p[2]] = 0
          /\ SumSeq(counts[p[1]], 1) > 0
    /\ \E p \in DrawnMembers :
          /\ counts[p[1]][p[2]] = 0
          /\ SumSeq(counts[p[1]], 1) = 0

\* C10 as claimed: the ring count handed to newImg by src/main.go is large
\* enough: every wedge drawn has ring index level with 1 <= level and
\* level + 1 <= levels.
C10_RadialBudget ==
    \A k \in 1 .. Len(Drawn) :
        /\ 1 <= Drawn[k].level
        /\ Drawn[k].level + 1 <= levels

-----------------------------------------------------------------------------
(* Properties of the concurrent render (src/unnamed/part_003) *)

\* the workers that are executing a command (inside drawNode, done not closed)
InFlight == {w \in DOMAIN wpc : wpc[w] = "drawNode"}

\* every command created so far, in creation order
Commands == promises \o ret

\* C7 as claimed: a wait-for-all barrier; no i.cat onto the output canvas
\* executes while some dispatched command is still in flight.
C7_WaitForAll ==
    pc = "cat" => InFlight = {}

\* C7 amended: main waits command by command, in promise order: when it
\* executes i.cat(cmd.i) for the pi-th promise, the done channels of
\* promises 1..pi are closed and no worker is executing one of them (later
\* promises may still be in flight); every command is complete before
\* close(drawCountCh) and i.save().
C7_WaitEachInOrder ==
    /\ pc = "cat" =>
          /\ \A k \in 1 .. pi : done[promises[k].done]
          /\ \A w \in InFlight : \A k \in 1 .. pi : wcmd[w].done # promises[k].done
    /\ pc \in {"save", "done"} =>
          /\ InFlight = {}
          /\ \A k \in 1 .. Len(promises) : done[promises[k].done]

C7_Witness ==
    /\ pc = "cat"
    /\ InFlight # {}
    /\ pi < Len(promises)
    /\ ~done[promises[Len(promises)].done]

\* C8: canvas exclusivity.  Every command carries its own fresh canvas, which
\* is never main's output image; a canvas is drawn on only by the one worker
\* executing its command; and main reads it (i.cat(cmd.i)) only when that
\* command's done channel is closed and no worker is drawing on it.
C8_CanvasExclusive ==
    /\ \A a \in 1 .. Len(Commands) :
          /\ Commands[a].i # 1
          /\ \A b \in 1 .. Len(Commands) : Commands[a].i = Commands[b].i => a = b
    /\ \A w \in InFlight :
          /\ wcmd[w].i # 1
          /\ \A v \in InFlight : wcmd[v].i = wcmd[w].i => v = w
    /\ pc = "cat" =>
          /\ done[promises[pi].done]
          /\ \A w \in InFlight : wcmd[w].i # promises[pi].i

C8_Witness ==
    /\ pc = "cat"
    /\ canvases[promises[pi].i] # <<>>
    /\ \E w \in InFlight : wpend[w] # <<>> /\ canvases[wcmd[w].i] # <<>>

RECURSIVE RenderLoop(_, _, _, _, _)
\* the curves of one cycle in drawLoop's order: member j from position start on
RenderLoop(n, lp, lvl, j, start) ==
    IF j > Len(lp) THEN <<>>
    ELSE LET c == loopSrcCounts(n, lp)
             fract == loopFract(c[j], SumSeq(c, 1))
         IN  drawNode(n, lp[j], lp, lvl, start, RAdd(start, fract))
             \o RenderLoop(n, lp, lvl, j + 1, RAdd(start, fract))

RECURSIVE RenderLoops(_, _, _, _)
\* the curves of the whole drawing in main's order: cycle k on, at ring lvl
RenderLoops(n, ls, k, lvl) ==
    IF k > Len(ls) THEN <<>>
    ELSE RenderLoop(n, ls[k], lvl, 1, Zero)
         \o RenderLoops(n, ls, k + 1, lvl + loopLevels(n, ls[k]) + 1)

\* C9: determinism of the concurrent render.  Whatever the scheduling, each
\* finished branch canvas holds exactly the curves of its command in drawNode
\* order, and the saved output is the branch canvases composited in promise
\* order: a function of the graph and the cycle list alone.
C9_Deterministic ==
    /\ \A k \in 1 .. Len(Commands) :
          done[Commands[k].done] =>
              canvases[Commands[k].i]
                = drawNode(nodes, Commands[k].nn, Commands[k].excluding,
                           Commands[k].level, Commands[k].start, Commands[k].end)
    /\ pc = "done" => canvases[1] = RenderLoops(nodes, loops, 1, 1)

C9_Witness ==
    /\ pc = "done"
    /\ Len(promises) >= 2
    /\ Len(canvases[1]) = NumNodes(nodes)
    /\ \E k \in 1 .. Len(promises) : Len(canvases[promises[k].i]) >= 2

-----------------------------------------------------------------------------
(* Properties of the cycle search (maybeLoop, findLoops) *)

\* a maybeLoop call has returned and no later call has started
Returned == pc # "maybeLoop" /\ path # <<>>

\* the members of the cycle through x
CycleOf(n, x) == {Follow(n, x, k) : k \in 0 .. NumNodes(n)}

\* C11: maybeLoop.  A walk never holds more than N nodes and is shorter than N
\* whenever another pass is due, so the call returns within N passes.  What it
\* returns is non-nil exactly when the origin is periodic, and then it is the
\* cycle of the origin: it starts at the origin, each member's Dst is the next
\* member, the last member's Dst is the origin, no member occurs twice, the
\* members are exactly the nodes of that cycle, and a self-loop gives a path
\* of length 1.
C11_MaybeLoop ==
    /\ Len(path) <= NumNodes(nodes)
    /\ pc = "maybeLoop" => Len(path) < NumNodes(nodes)
    /\ Returned =>
          /\ rloop # <<>> <=> origI \in Periodic(nodes)
          /\ rloop # <<>> =>
                /\ rloop = path
                /\ rloop[1].Num = origI
                /\ \A k \in 1 .. Len(rloop) - 1 : rloop[k].Dst = rloop[k + 1].Num
                /\ rloop[Len(rloop)].Dst = origI
                /\ \A k \in 1 .. Len(rloop) : \A m \in 1 .. Len(rloop) :
                      rloop[k].Num = rloop[m].Num => k = m
                /\ {rloop[k].Num : k \in 1 .. Len(rloop)} = CycleOf(nodes, origI)
                /\ nodes[origI].Dst = origI => Len(rloop) = 1

C11_Witness ==
    /\ Returned
    /\ Len(rloop) >= 3
    /\ origI > 0
    /\ \E x \in Ids(nodes) : x \notin Periodic(nodes)

-----------------------------------------------------------------------------
(* Properties of a whole render pass *)

\* C12: one wedge per node.  No two curves on main's image belong to the same
\* node, drawCounter's total is the number of curves drawn, and when the
\* render pass of src/main.go is over (drawLoop called once for each cycle of
\* the list) every node of the domain has its curve: N curves, one per node.
C12_OneWedgePerNode ==
    /\ \A k \in 1 .. Len(Drawn) : \A m \in 1 .. Len(Drawn) :
          Drawn[k].color = Drawn[m].color => k = m
    /\ drawTotal = Len(Drawn)
    /\ pc = "done" =>
          /\ \A x \in Ids(nodes) : IsDrawn(x)
          /\ Len(Drawn) = NumNodes(nodes)
          /\ drawTotal = NumNodes(nodes)

C12_Witness ==
    /\ pc = "done"
    /\ Len(loops) >= 2
    /\ drawTotal = NumNodes(nodes)
    /\ \E x \in Ids(nodes) :
          /\ IsDrawn(x)
          /\ Follow(nodes, x, 1) \notin Members(loops)
          /\ Follow(nodes, x, 2) \in Members(loops)

\* C13: the skip of findLoops in src/main.go.  maybeLoop is never running
\* from an origin that is a member of a loop found so far, and so the list
\* findLoops builds (before dedupLoops runs) never holds a node number in two
\* of its loops.
C13_FoundIdsSkipped ==
    /\ pc = "maybeLoop" => ~InFoundLoops(loops, origI)
    /\ pc \in {"findLoops", "maybeLoop"} =>
          \A p \in Positions(loops) : \A q \in Positions(loops) :
              loops[p[1]][p[2]].Num = loops[q[1]][q[2]].Num => p = q

\* C14 as stated: over one whole run of findLoops no node is appended to a
\* walk path more than once, all walks taken together.
C14_VisitedOnce == \A x \in Ids(nodes) : visits[x] <= 1

\* C14: what holds instead.  One walk (one call of maybeLoop) appends a node
\* at most once, and the walks of one run of findLoops together append a node
\* at most once for each walk started so far: at most N times in all.
C14_VisitedOncePerWalk ==
    /\ \A k \in 1 .. Len(path) : \A m \in 1 .. Len(path) :
          path[k].Num = path[m].Num => k = m
    /\ \A x \in Ids(nodes) :
          /\ visits[x] <= IF pc = "maybeLoop" THEN fi + 1 ELSE fi
          /\ visits[x] <= NumNodes(nodes)

C14_Witness ==
    /\ prog = "part3"
    /\ pc = "found"
    /\ Len(loops) >= 2
    /\ \E x \in Ids(nodes) : visits[x] >= 3

-----------------------------------------------------------------------------
(* Properties of the channels of the concurrent render (src/unnamed/part_003) *)

\* C15: progress.  Under weak fairness of main, of the rendezvous on
\* drawNodeCh and of every worker, whatever the number of commands and
\* workers, the run does not get stuck: eventually main is past i.save(),
\* nothing has panicked, every command sent on drawNodeCh was received and
\* its drawNode has returned (each of its sends on drawCountCh was received),
\* and the done channel of every command created is closed.
C15_Progress ==
    <>(/\ pc = "done"
       /\ ~panicked
       /\ Len(done) = Len(promises)
       /\ \A k \in 1 .. Len(done) : done[k]
       /\ \A w \in Workers : wpc[w] = "recv" /\ wpend[w] = <<>>)

\* a finished run with more commands than workers
C15_Witness ==
    /\ pc = "done"
    /\ ~panicked
    /\ Len(promises) > NumWorkers
    /\ \A k \in 1 .. Len(done) : done[k]
    /\ \A w \in Workers : wpc[w] = "recv"

\* C16: channel safety.  In every interleaving: no goroutine has sent on or
\* closed a closed channel; every command has a done channel of its own; the
\* done channel of a command a worker is still executing is open, and once it
\* is closed every curve of that command's drawNode call (its recursive draws
\* and progress sends included) has been drawn; and once drawCountCh is closed
\* no worker is inside drawNode and all N progress sends have been received.
C16_ChannelSafety ==
    /\ ~panicked
    /\ \A k \in 1 .. Len(Commands) : \A m \in 1 .. Len(Commands) :
          Commands[k].done = Commands[m].done => k = m
    /\ \A w \in InFlight : ~done[wcmd[w].done]
    /\ \A k \in 1 .. Len(Commands) :
          done[Commands[k].done] =>
              Len(canvases[Commands[k].i])
                = Len(drawNode(nodes, Commands[k].nn, Commands[k].excluding,
                               Commands[k].level, Commands[k].start, Commands[k].end))
    /\ countClosed =>
          /\ InFlight = {}
          /\ \A w \in Workers : wpend[w] = <<>>
          /\ \A k \in 1 .. Len(done) : done[k]
          /\ drawTotal = NumNodes(nodes)

C16_Witness ==
    /\ countClosed
    /\ ~panicked
    /\ Len(done) >= 2
    /\ \A k \in 1 .. Len(done) : done[k]
    /\ \E k \in 1 .. Len(Commands) : Len(canvases[Commands[k].i]) >= 2

-----------------------------------------------------------------------------
(* Properties of the ring allocation (render of src/main.go) *)

\* the number of Dst hops from x to the first node on a cycle
Hops(n, x) ==
    CHOOSE k \in 0 .. NumNodes(n) :
        /\ Follow(n, x, k) \in Periodic(n)
        /\ \A m \in 0 .. k - 1 : Follow(n, x, m) \notin Periodic(n)

\* the position in the cycle list of the cycle that x leads to
LoopOf(n, ls, x) ==
    CHOOSE a \in 1 .. Len(ls) :
        \E b \in 1 .. Len(ls[a]) : ls[a][b].Num = Follow(n, x, Hops(n, x))

\* the curves drawn so far for the nodes that lead to the a-th cycle
DrawnOf(a) ==
    {k \in 1 .. Len(Drawn) : LoopOf(nodes, loops, Drawn[k].color) = a}

\* C17: ring allocation.  While the cycle loops[li] is drawn from ring
\* `level`, each of its wedges is at ring level + (Dst hops from its node to
\* the cycle); when drawLoop has drawn all its members the deepest wedge
\* is at exactly level + loopLevels - 1; and at all times wedges of two
\* different cycles are at different rings.
C17_RingAllocation ==
    /\ pc \in {"drawLoop", "drawNode"} =>
          \A k \in DrawnOf(li) : Drawn[k].level = level + Hops(nodes, Drawn[k].color)
    /\ (pc = "drawLoop" /\ mj > Len(loops[li])) =>
          /\ \A k \in DrawnOf(li) :
                Drawn[k].level <= level + loopLevels(nodes, loops[li]) - 1
          /\ \E k \in DrawnOf(li) :
                Drawn[k].level = level + loopLevels(nodes, loops[li]) - 1
    /\ pc \in {"range", "drawLoop", "drawNode", "done"} =>
          \A k \in 1 .. Len(Drawn) : \A m \in 1 .. Len(Drawn) :
              LoopOf(nodes, loops, Drawn[k].color) # LoopOf(nodes, loops, Drawn[m].color)
                  => Drawn[k].level # Drawn[m].level

C17_Witness ==
    /\ pc = "drawLoop"
    /\ li = 2
    /\ mj > Len(loops[li])
    /\ loopLevels(nodes, loops[1]) >= 2
    /\ loopLevels(nodes, loops[2]) >= 2
    /\ \E k \in DrawnOf(1) : \E m \in DrawnOf(2) :
          /\ Hops(nodes, Drawn[k].color) >= 1
          /\ Hops(nodes, Drawn[m].color) >= 1

====
